---- MODULE Spec2Model ----
(***************************************************************************)
(* Model of kanten_logs/src/components/log_list/mod.rs: the LogListModel   *)
(* (items + LogListState), its public operations, and the StatefulWidget   *)
(* render of LogList (window computation and draw loop).                   *)
(*                                                                         *)
(* Indices are 0-based as in the source; At(its, i) reads items[i].        *)
(* An item is represented by its content, and a content by the number of   *)
(* characters of a single unbroken word (no whitespace, no line breaks).   *)
(* Option<usize> is a sequence: None is <<>>, Some(i) is <<i>>.            *)
(* A panic (index out of bounds in either build, arithmetic overflow in a  *)
(* debug build) sets panicked and ends the run; a release build wraps the  *)
(* overflowing usize or u16 operation.                                     *)
(***************************************************************************)
EXTENDS Integers, Sequences, FiniteSets, TLC

\* ---------------------------------------------------------------- bounds
MaxItems == 3
MaxSel == 4
MaxWidth == 2
MaxHeight == 3
MaxTop == 0
MaxContent == 4

ContentLens == {0, MaxContent}
FindTexts == {"", "a"}
Builds == {"debug", "release"}
KeyCodes == {"Down", "Up", "n", "p"}
KeyModifiers == {"NONE", "CONTROL"}
KeyEvents == [code : KeyCodes, modifiers : KeyModifiers]
U16 == 2^16

\* The rows an area can start at: the first rows of the screen, and a row so
\* close to u16::MAX that an item taller than the area ends beyond it. Every
\* area keeps y + height <= u16::MAX, so Rect::bottom itself never overflows.
HighTop == U16 - 1 - MaxHeight
Tops == (0..MaxTop) \cup {HighTop}
Areas == [y : Tops, width : 0..MaxWidth, height : 0..MaxHeight]

None == <<>>
Some(i) == <<i>>
Indexes == {None} \cup {Some(i) : i \in 0..MaxSel}

VARIABLES items, offset, selected, focused, find_text, build, panicked, last

state == <<offset, selected, focused, find_text>>
model == <<items, offset, selected, focused, find_text>>
vars == <<items, offset, selected, focused, find_text, build, panicked, last>>

\* ------------------------------------------------------------ pure helpers
At(its, i) == its[i + 1]
Min(a, b) == IF a < b THEN a ELSE b
unwrap_or(opt, d) == IF opt = None THEN d ELSE opt[1]
saturating_sub(a, b) == IF a > b THEN a - b ELSE 0
wrapping_sub(a, b) == (a - b + U16) % U16

\* Number of display lines LineBuilder::run_composer returns for a content
\* of c characters at width w: greedy wrap of one word, hard-broken at the
\* width boundary; an empty text is one empty line. The query t only
\* restyles spans.
run_composer_len(c, w, t) == IF c = 0 THEN 1 ELSE (c + w - 1) \div w

\* LogListItem::height: the number of lines composed with an empty query
height(c, w) == run_composer_len(c, w, "")

\* --------------------------------------------------- render: the window
\* for item in items.iter().skip(offset): grow end while the items fit;
\* a partially fitting item is counted and the height truncated.
RECURSIVE ForwardScan(_, _, _, _, _, _)
ForwardScan(its, w, list_height, idx, end, h) ==
  IF idx >= Len(its) THEN [end |-> end, height |-> h]
  ELSE LET item_height == height(At(its, idx), w) IN
       IF h + item_height > list_height
       THEN IF h # list_height
            THEN LET overflow == (h + item_height - list_height) % U16
                 IN [end |-> end + 1, height |-> h + item_height - overflow]
            ELSE [end |-> end, height |-> h]
       ELSE ForwardScan(its, w, list_height, idx + 1, end + 1, h + item_height)

\* mutant: the inner loop of the advance step tests height >= list_height
RECURSIVE ShrinkFront_ge(_, _, _, _)
ShrinkFront_ge(its, w, list_height, st) ==
  IF st.height < list_height THEN st
  ELSE IF st.start >= Len(its) THEN [st EXCEPT !.panic = TRUE]
  ELSE ShrinkFront_ge(its, w, list_height,
         [st EXCEPT !.height = saturating_sub(@, height(At(its, st.start), w)),
                    !.start = @ + 1])

\* while height > list_height { height -= items[start].height; start += 1 }
RECURSIVE ShrinkFront(_, _, _, _)
ShrinkFront(its, w, list_height, st) ==
  IF st.height <= list_height THEN st
  ELSE IF st.start >= Len(its) THEN [st EXCEPT !.panic = TRUE]
  ELSE ShrinkFront(its, w, list_height,
         [st EXCEPT !.height = saturating_sub(@, height(At(its, st.start), w)),
                    !.start = @ + 1])

\* mutant: the advance loop also runs when the selection is the last item
\* of the window (selected + 1 >= end)
RECURSIVE Advance_eager(_, _, _, _, _)
Advance_eager(its, w, list_height, sel, st) ==
  IF st.panic \/ sel + 1 < st.end \/ st.end >= Len(its) THEN st
  ELSE Advance_eager(its, w, list_height, sel,
         ShrinkFront(its, w, list_height,
           [st EXCEPT !.height = @ + height(At(its, st.end), w),
                      !.end = @ + 1]))

\* while selected >= end { height += items[end].height; end += 1; shrink }
RECURSIVE Advance(_, _, _, _, _)
Advance(its, w, list_height, sel, st) ==
  IF st.panic \/ sel < st.end THEN st
  ELSE IF st.end >= Len(its) THEN [st EXCEPT !.panic = TRUE]
  ELSE Advance(its, w, list_height, sel,
         ShrinkFront(its, w, list_height,
           [st EXCEPT !.height = @ + height(At(its, st.end), w),
                      !.end = @ + 1]))

\* while height > list_height { end -= 1; height -= items[end].height }
\* end -= 1 at end = 0 panics in a debug build and wraps to usize::MAX in a
\* release build, where items[end] is then out of bounds: a panic either way.
RECURSIVE ShrinkBack(_, _, _, _)
ShrinkBack(its, w, list_height, st) ==
  IF st.height <= list_height THEN st
  ELSE IF st.end = 0 \/ st.end - 1 >= Len(its) THEN [st EXCEPT !.panic = TRUE]
  ELSE ShrinkBack(its, w, list_height,
         [st EXCEPT !.end = @ - 1,
                    !.height = saturating_sub(@, height(At(its, st.end - 1), w))])

\* mutant: the retreat loop stops one item short (selected + 1 < start)
RECURSIVE Retreat_stops_short(_, _, _, _, _)
Retreat_stops_short(its, w, list_height, sel, st) ==
  IF st.panic \/ sel + 1 >= st.start THEN st
  ELSE IF st.start - 1 >= Len(its) THEN [st EXCEPT !.panic = TRUE]
  ELSE Retreat_stops_short(its, w, list_height, sel,
         ShrinkBack(its, w, list_height,
           [st EXCEPT !.start = @ - 1,
                      !.height = @ + height(At(its, st.start - 1), w)]))

\* while selected < start { start -= 1; height += items[start].height; shrink }
RECURSIVE Retreat(_, _, _, _, _)
Retreat(its, w, list_height, sel, st) ==
  IF st.panic \/ sel >= st.start THEN st
  ELSE IF st.start - 1 >= Len(its) THEN [st EXCEPT !.panic = TRUE]
  ELSE Retreat(its, w, list_height, sel,
         ShrinkBack(its, w, list_height,
           [st EXCEPT !.start = @ - 1,
                      !.height = @ + height(At(its, st.start - 1), w)]))

\* mutant: the selection is used without the clamp to the last index
clamp_selected_unclamped(sel, its) == unwrap_or(sel, 0)

\* let selected = state.selected.unwrap_or(0).min(self.items.len() - 1);
clamp_selected(sel, its) == Min(unwrap_or(sel, 0), Len(its) - 1)

\* start, end and height after the three loops (lines 211-246), for a
\* non-empty its and a list area of width w >= 1, height list_height >= 1.
Window(its, off, sel, w, list_height) ==
  LET fs == ForwardScan(its, w, list_height, off, off, 0)
      s0 == [start |-> off, end |-> fs.end, height |-> fs.height, panic |-> FALSE]
      s1 == Advance(its, w, list_height, clamp_selected(sel, its), s0)
  IN Retreat(its, w, list_height, clamp_selected(sel, its), s1)

\* --------------------------------------------------- render: the draw loop
\* One record per item drawn: its index, the top row y and height of its
\* sub-rectangle, whether the highlight style was applied, and the rows at
\* which a display line was written with set_spans.
\* The record of a render call (last) holds the list area (arg), the offset
\* the call started from (from), the window [start, end) it computed and
\* these draw records (drawn), and why the call panicked, if it did
\* (fault): "index" for a slice index out of bounds, "take" for the
\* overflow of end - start, "u16" for an overflow in the draw loop.

\* list_area.bottom(): y + height, which no area of the model overflows
bottom(area) == area.y + area.height

\* a + b in u16 overflows: a debug build panics there, a release build wraps
overflows(a, b) == a + b >= U16
wrapping_add(a, b) == (a + b) % U16

\* Lines 290-305: the rows at which the lines of one item are written. Line
\* j goes to row y + (j as u16) when that row is above the bottom. In a
\* debug build the loop panics at the first j whose sum overflows, which is
\* j = 2^16 - y (for y >= 1, when the item has that many lines), after the
\* lines before it were written.
draw_lines(y, lines, area) ==
  LET panics == build = "debug" /\ y >= 1 /\ lines > U16 - y
      stop == IF panics THEN U16 - y ELSE lines
  IN [rows |-> {wrapping_add(y, j % U16) : j \in
                  {k \in 0..(stop - 1) : wrapping_add(y, k % U16) < bottom(area)}},
      panic |-> panics]

\* the draw record of one item, followed by the outcome of the rest of the loop
prepend(rec, rest) == [drawn |-> <<rec>> \o rest.drawn, panic |-> rest.panic]

\* Lines 248-306, from item i up to stop, in the u16 arithmetic of the
\* code: item_height is the height cast to u16, and each of
\* top + current_height (258), current_height += item_height (259) and
\* y + item_height (272, 275) panics on overflow in a debug build and wraps
\* in a release build. The result is the draw records and whether the loop
\* panicked.

RECURSIVE DrawLoop(_, _, _, _, _, _, _)
DrawLoop(its, sel, t, area, i, stop, current_height) ==
  IF i >= stop \/ i >= Len(its) THEN [drawn |-> <<>>, panic |-> FALSE]
  ELSE LET item_height == height(At(its, i), area.width) % U16
           y == wrapping_add(area.y, current_height)
           next_height == wrapping_add(current_height, item_height)
           checked == build = "debug"
       IN IF checked /\ (overflows(area.y, current_height)
                         \/ overflows(current_height, item_height))
          THEN [drawn |-> <<>>, panic |-> TRUE]
          ELSE IF y >= bottom(area) THEN [drawn |-> <<>>, panic |-> FALSE]
          ELSE IF checked /\ overflows(y, item_height)
          THEN [drawn |-> <<>>, panic |-> TRUE]
          ELSE LET clip == IF bottom(area) > wrapping_add(y, item_height) THEN 0
                           ELSE wrapping_sub(wrapping_add(y, item_height), bottom(area))
                   written == draw_lines(y, run_composer_len(At(its, i), area.width, t), area)
                   rec == [index |-> i, y |-> y,
                           height |-> wrapping_sub(item_height, clip),
                           highlighted |-> (sel = Some(i)),
                           rows |-> written.rows]
                   rest == IF written.panic THEN [drawn |-> <<>>, panic |-> TRUE]
                           ELSE DrawLoop(its, sel, t, area, i + 1, stop, next_height)
               IN prepend(rec, rest)

\* ------------------------------------------------------------------- Init
\* The model LogListModel::new() returns: no items, and the default state
\* (offset 0, not focused, empty find_text) with Some(0) selected.
new == <<<<>>, 0, Some(0), FALSE, "">>

\* LogListModel::new(): LogListState::default() then select(Some(0)).
Init ==
  /\ items = <<>>
  /\ offset = 0
  /\ selected = Some(0)
  /\ focused = FALSE
  /\ find_text = ""
  /\ build \in Builds
  /\ panicked = FALSE
  /\ last = [op |-> "new"]

\* ------------------------------------------------------------- operations
\* mutant: select(None) forgets to reset the scroll offset
select_keep_offset(index) ==
  /\ selected' = index
  /\ offset' = offset

\* LogListState::select
select(index) ==
  /\ selected' = index
  /\ offset' = IF index = None THEN 0 ELSE offset

\* mutant: the bound of next_if_exist is off by one (i < len)
next_if_exist_off_by_one ==
  IF selected = None
  THEN UNCHANGED <<offset, selected, panicked>>
  ELSE LET i == selected[1] IN
       IF i < Len(items)
       THEN select(Some(i + 1)) /\ UNCHANGED panicked
       ELSE UNCHANGED <<offset, selected, panicked>>

\* LogListModel::next_if_exist. items.len() - 1 on an empty collection
\* overflows: a debug build panics, a release build wraps to usize::MAX,
\* and every index of the model is below usize::MAX.
next_if_exist ==
  IF selected = None
  THEN UNCHANGED <<offset, selected, panicked>>
  ELSE LET i == selected[1] IN
       IF Len(items) = 0
       THEN IF build = "debug"
            THEN panicked' = TRUE /\ UNCHANGED <<offset, selected>>
            ELSE select(Some(i + 1)) /\ UNCHANGED panicked
       ELSE IF i < Len(items) - 1
            THEN select(Some(i + 1)) /\ UNCHANGED panicked
            ELSE UNCHANGED <<offset, selected, panicked>>

\* the index next_if_exist may produce stays within the modelled range
next_in_range ==
  (selected # None /\ Len(items) = 0 /\ build = "release") => selected[1] < MaxSel

\* LogListModel::previous_if_exist
previous_if_exist ==
  IF selected = None
  THEN UNCHANGED <<offset, selected, panicked>>
  ELSE LET i == selected[1] IN
       IF i > 0
       THEN select(Some(i - 1)) /\ UNCHANGED panicked
       ELSE UNCHANGED <<offset, selected, panicked>>

\* mutant: push inserts the item at the front
Push_prepends(c) ==
  /\ ~panicked
  /\ Len(items) < MaxItems
  /\ items' = <<c>> \o items
  /\ last' = [op |-> "push", arg |-> c]
  /\ UNCHANGED <<offset, selected, focused, find_text, build, panicked>>

Push(c) ==
  /\ ~panicked
  /\ Len(items) < MaxItems
  /\ items' = Append(items, c)
  /\ last' = [op |-> "push", arg |-> c]
  /\ UNCHANGED <<offset, selected, focused, find_text, build, panicked>>

\* mutant: clear() forgets to reset the scroll offset
Clear_keep_offset ==
  /\ ~panicked
  /\ items' = <<>>
  /\ selected' = Some(0)
  /\ last' = [op |-> "clear"]
  /\ UNCHANGED <<offset, focused, find_text, build, panicked>>

\* mutant: clear() forgets to reset the selection
Clear_keep_selected ==
  /\ ~panicked
  /\ items' = <<>>
  /\ offset' = 0
  /\ last' = [op |-> "clear"]
  /\ UNCHANGED <<selected, focused, find_text, build, panicked>>

\* mutant: clear() also empties the search query
Clear_resets_query ==
  /\ ~panicked
  /\ items' = <<>>
  /\ offset' = 0
  /\ selected' = Some(0)
  /\ find_text' = ""
  /\ last' = [op |-> "clear"]
  /\ UNCHANGED <<focused, build, panicked>>

Clear ==
  /\ ~panicked
  /\ items' = <<>>
  /\ offset' = 0
  /\ selected' = Some(0)
  /\ last' = [op |-> "clear"]
  /\ UNCHANGED <<focused, find_text, build, panicked>>

Select(index) ==
  /\ ~panicked
  /\ select(index)
  /\ last' = [op |-> "select", arg |-> index]
  /\ UNCHANGED <<items, focused, find_text, build, panicked>>

Unselect ==
  /\ ~panicked
  /\ select(None)
  /\ last' = [op |-> "unselect"]
  /\ UNCHANGED <<items, focused, find_text, build, panicked>>

NextIfExist ==
  /\ ~panicked
  /\ next_in_range
  /\ next_if_exist
  /\ last' = [op |-> "next_if_exist"]
  /\ UNCHANGED <<items, focused, find_text, build>>

PreviousIfExist ==
  /\ ~panicked
  /\ previous_if_exist
  /\ last' = [op |-> "previous_if_exist"]
  /\ UNCHANGED <<items, focused, find_text, build>>

Focus ==
  /\ ~panicked
  /\ focused' = TRUE
  /\ last' = [op |-> "focus"]
  /\ UNCHANGED <<items, offset, selected, find_text, build, panicked>>

Blur ==
  /\ ~panicked
  /\ focused' = FALSE
  /\ last' = [op |-> "blur"]
  /\ UNCHANGED <<items, offset, selected, find_text, build, panicked>>

\* mutant: a new query also scrolls the list back to the top
SetFindText_resets_offset(t) ==
  /\ ~panicked
  /\ find_text' = t
  /\ offset' = 0
  /\ last' = [op |-> "set_find_text", arg |-> t]
  /\ UNCHANGED <<items, selected, focused, build, panicked>>

SetFindText(t) ==
  /\ ~panicked
  /\ find_text' = t
  /\ last' = [op |-> "set_find_text", arg |-> t]
  /\ UNCHANGED <<items, offset, selected, focused, build, panicked>>

\* mutant: the Char('n') and Char('p') arms forget the Control modifier
key_action_any_modifier(key) ==
  IF    key.code = "n"
     \/ (key.code = "Down" /\ key.modifiers = "NONE") THEN "next"
  ELSE IF key.code = "p"
     \/ (key.code = "Up" /\ key.modifiers = "NONE") THEN "previous"
  ELSE "ignore"

\* the action a key event is matched to
key_action(key) ==
  IF    (key.code = "n" /\ key.modifiers = "CONTROL")
     \/ (key.code = "Down" /\ key.modifiers = "NONE") THEN "next"
  ELSE IF (key.code = "p" /\ key.modifiers = "CONTROL")
     \/ (key.code = "Up" /\ key.modifiers = "NONE") THEN "previous"
  ELSE "ignore"

OnKey(key) ==
  /\ ~panicked
  /\ CASE key_action(key) = "next" -> next_in_range /\ next_if_exist
       [] key_action(key) = "previous" -> previous_if_exist
       [] OTHER -> UNCHANGED <<offset, selected, panicked>>
  /\ last' = [op |-> "on_key", arg |-> key]
  /\ UNCHANGED <<items, focused, find_text, build>>

\* mutant: the early-out forgets the height test
early_out_no_height(area, its) == area.width < 1 \/ Len(its) = 0

\* if list_area.width < 1 || list_area.height < 1 { return } and
\* if self.items.is_empty() { return }
early_out(area, its) == area.width < 1 \/ area.height < 1 \/ Len(its) = 0

\* the record of a render call that reached the draw loop
drawn_record(area, from, start, end, dl) ==
  [op |-> "render", arg |-> area, drawn |-> dl.drawn, from |-> from,
   start |-> start, end |-> end, skipped |-> FALSE,
   fault |-> IF dl.panic THEN "u16" ELSE "none"]

\* mutant: render stores the clamped selection back into the state
Render_writes_selected(area) ==
  /\ ~panicked
  /\ IF early_out(area, items)
     THEN /\ last' = [op |-> "render", arg |-> area, drawn |-> <<>>,
                      from |-> offset, start |-> offset, end |-> offset,
                      skipped |-> TRUE, fault |-> "none"]
          /\ UNCHANGED <<offset, selected, panicked>>
     ELSE LET st == Window(items, offset, selected, area.width, area.height)
              \* .take(end - start): the subtraction overflows when
              \* end < start; debug panics, release wraps to a count no
              \* collection reaches
              count == IF st.end >= st.start THEN st.end - st.start ELSE Len(items)
              dl == DrawLoop(items, selected, find_text, area,
                             st.start, st.start + count, 0)
          IN IF st.panic
             THEN \* a slice index out of bounds, before line 247
                  /\ panicked' = TRUE
                  /\ last' = [op |-> "render", arg |-> area, drawn |-> <<>>,
                              from |-> offset, start |-> offset, end |-> offset,
                              skipped |-> FALSE, fault |-> "index"]
                  /\ UNCHANGED <<offset, selected>>
             ELSE IF st.end < st.start /\ build = "debug"
             THEN \* end - start overflows, after state.offset = start
                  /\ panicked' = TRUE
                  /\ offset' = st.start
                  /\ selected' = Some(clamp_selected(selected, items))
                  /\ last' = [op |-> "render", arg |-> area, drawn |-> <<>>,
                              from |-> offset, start |-> st.start, end |-> st.end,
                              skipped |-> FALSE, fault |-> "take"]
             ELSE \* state.offset = start, then the draw loop, which may
                  \* panic on a u16 overflow after drawing some items
                  /\ offset' = st.start
                  /\ selected' = Some(clamp_selected(selected, items))
                  /\ last' = drawn_record(area, offset, st.start, st.start + count, dl)
                  /\ panicked' = (last'.fault = "u16")
  /\ UNCHANGED <<items, focused, find_text, build>>

\* LogList::render on the list area (the area left by the optional block).
Render(area) ==
  /\ ~panicked
  /\ IF early_out(area, items)
     THEN /\ last' = [op |-> "render", arg |-> area, drawn |-> <<>>,
                      from |-> offset, start |-> offset, end |-> offset,
                      skipped |-> TRUE, fault |-> "none"]
          /\ UNCHANGED <<offset, panicked>>
     ELSE LET st == Window(items, offset, selected, area.width, area.height)
              \* .take(end - start): the subtraction overflows when
              \* end < start; debug panics, release wraps to a count no
              \* collection reaches
              count == IF st.end >= st.start THEN st.end - st.start ELSE Len(items)
              dl == DrawLoop(items, selected, find_text, area,
                             st.start, st.start + count, 0)
          IN IF st.panic
             THEN \* a slice index out of bounds, before line 247
                  /\ panicked' = TRUE
                  /\ last' = [op |-> "render", arg |-> area, drawn |-> <<>>,
                              from |-> offset, start |-> offset, end |-> offset,
                              skipped |-> FALSE, fault |-> "index"]
                  /\ UNCHANGED offset
             ELSE IF st.end < st.start /\ build = "debug"
             THEN \* end - start overflows, after state.offset = start
                  /\ panicked' = TRUE
                  /\ offset' = st.start
                  /\ last' = [op |-> "render", arg |-> area, drawn |-> <<>>,
                              from |-> offset, start |-> st.start, end |-> st.end,
                              skipped |-> FALSE, fault |-> "take"]
             ELSE \* state.offset = start, then the draw loop, which may
                  \* panic on a u16 overflow after drawing some items
                  /\ offset' = st.start
                  /\ last' = drawn_record(area, offset, st.start, st.start + count, dl)
                  /\ panicked' = (last'.fault = "u16")
  /\ UNCHANGED <<items, selected, focused, find_text, build>>

Next ==
  \/ \E c \in ContentLens : Push(c)
  \/ Clear
  \/ \E index \in Indexes : Select(index)
  \/ Unselect
  \/ NextIfExist
  \/ PreviousIfExist
  \/ Focus
  \/ Blur
  \/ \E t \in FindTexts : SetFindText(t)
  \/ \E key \in KeyEvents : OnKey(key)
  \/ \E area \in Areas : Render(area)

Spec == Init /\ [][Next]_vars

\* ------------------------------------------------------------ type sanity
TypeOK ==
  /\ items \in Seq(ContentLens) /\ Len(items) <= MaxItems
  /\ offset \in Nat
  /\ selected \in Indexes
  /\ focused \in BOOLEAN
  /\ find_text \in FindTexts
  /\ build \in Builds
  /\ panicked \in BOOLEAN

\* ---------------------------------------------------------------- claims
in_bounds(sel, its) == sel = None \/ sel[1] <= Len(its) - 1
rendered == last.op = "render" /\ ~last.skipped /\ ~panicked
moved_down(l) == l.op = "next_if_exist" \/ (l.op = "on_key" /\ key_action(l.arg) = "next")

\* C1 (as claimed): after a render of a non-empty collection into an area of
\* positive width and height with selected = Some(i), i < len, item i lies
\* in the drawn window [start, end) and its first row is drawn at a row y
\* with area.top <= y < area.bottom.
C1_SelectionVisible ==
  (rendered /\ selected # None /\ selected[1] < Len(items)) =>
    /\ last.start <= selected[1] /\ selected[1] < last.end
    /\ \E k \in 1..Len(last.drawn) :
         /\ last.drawn[k].index = selected[1]
         /\ last.arg.y <= last.drawn[k].y
         /\ last.drawn[k].y < last.arg.y + last.arg.height

\* C2: with a non-empty collection and a selection that is None or within
\* [0, len-1], a next_if_exist or previous_if_exist call leaves the
\* selection None (only if it was None) or within [0, len-1], and does not
\* fail.
C2_NavigationBounds ==
  [][(/\ last'.op \in {"next_if_exist", "previous_if_exist"}
      /\ Len(items) > 0
      /\ in_bounds(selected, items))
     => (/\ in_bounds(selected', items')
         /\ (selected' = None <=> selected = None)
         /\ ~panicked')]_vars

C2_Witness ==
  /\ last.op = "next_if_exist"
  /\ Len(items) >= 2
  /\ selected = Some(Len(items) - 1)
  /\ ~panicked

\* C3 (as claimed): next_if_exist, or a move-down key, on an empty
\* collection does not fail and leaves selected and offset unchanged.
C3_EmptyNextNoop ==
  [][(moved_down(last') /\ Len(items) = 0)
     => (~panicked' /\ selected' = selected /\ offset' = offset)]_vars

\* C4 (as claimed): next_if_exist moves Some(i) to Some(i+1) exactly when
\* i < len-1 and previous_if_exist moves Some(i) to Some(i-1) exactly when
\* i > 0; otherwise they are no-ops; neither changes offset, items, focused
\* or the query, and neither fails.
C4_SingleStep ==
  [][/\ (last'.op = "next_if_exist") =>
          /\ selected' = IF selected # None /\ selected[1] < Len(items) - 1
                         THEN Some(selected[1] + 1) ELSE selected
          /\ ~panicked'
          /\ <<offset', items', focused', find_text'>> = <<offset, items, focused, find_text>>
     /\ (last'.op = "previous_if_exist") =>
          /\ selected' = IF selected # None /\ selected[1] > 0
                         THEN Some(selected[1] - 1) ELSE selected
          /\ ~panicked'
          /\ <<offset', items', focused', find_text'>> = <<offset, items, focused, find_text>>
    ]_vars

\* C5: in every reachable state offset < items.len() when the collection
\* is non-empty, and offset = 0 when the collection is empty or
\* selected = None.
C5_OffsetInvariant ==
  /\ (Len(items) > 0 => offset < Len(items))
  /\ ((Len(items) = 0 \/ selected = None) => offset = 0)

C5_Witness == rendered /\ offset > 0 /\ offset = Len(items) - 1

\* C6: after clear() the collection is empty, offset = 0 and
\* selected = Some(0).
C6_ClearResets ==
  (last.op = "clear") => (items = <<>> /\ offset = 0 /\ selected = Some(0))

C6_Witness == last.op = "clear" /\ focused /\ find_text = "a"

\* C7: select(None) and unselect() leave selected = None and offset = 0;
\* select(Some(i)) sets selected to Some(i), whatever i, and keeps offset.
C7_UnselectResets ==
  [][/\ (last'.op = "unselect" \/ (last'.op = "select" /\ last'.arg = None))
          => (selected' = None /\ offset' = 0)
     /\ (last'.op = "select" /\ last'.arg # None)
          => (selected' = last'.arg /\ offset' = offset)]_vars

C7_Witness ==
  \/ last.op = "unselect" /\ Len(items) >= 2 /\ offset = 0 /\ selected = None
  \/ last.op = "select" /\ selected # None /\ selected[1] >= Len(items) /\ offset > 0

\* C8: a render with selected = Some(k), k >= len > 0, does not fail on an
\* index (no out-of-bounds access, no underflow of start or end) and stores
\* the offset a render from the same offset with selected = Some(len-1)
\* computes.
C8_ClampAtRender ==
  [][(/\ last'.op = "render" /\ ~last'.skipped
      /\ selected # None /\ selected[1] >= Len(items))
     => (/\ last'.fault \notin {"index", "take"}
         /\ offset' = Window(items, offset, Some(Len(items) - 1),
                             last'.arg.width, last'.arg.height).start)]_vars

C8_Witness ==
  /\ rendered
  /\ selected # None /\ selected[1] >= Len(items)
  /\ offset > 0

\* C9: a render into an area of width < 1 or height < 1, or of an empty
\* collection, leaves offset, selected, focused and the query unchanged.
C9_DegenerateNoop ==
  [][(/\ last'.op = "render"
      /\ (last'.arg.width < 1 \/ last'.arg.height < 1 \/ Len(items) = 0))
     => (state' = state /\ ~panicked')]_vars

C9_Witness ==
  /\ last.op = "render" /\ last.skipped
  /\ Len(items) > 0 /\ offset > 0
  /\ last.arg.width >= 1 /\ last.arg.height < 1

\* C10: a render leaves selected, focused, the query and the collection as
\* they were.
C10_RenderOnlyOffset ==
  [][(last'.op = "render")
     => (/\ selected' = selected /\ focused' = focused
         /\ find_text' = find_text /\ items' = items)]_vars

C10_Witness ==
  /\ rendered /\ offset > 0 /\ focused /\ find_text = "a"
  /\ selected # None /\ selected[1] > Len(items)

\* C11: push(item) appends the item at the end (the length grows by one and
\* the items already there keep their indices) and leaves selected and
\* offset unchanged.
C11_PushAppends ==
  [][(last'.op = "push")
     => (/\ Len(items') = Len(items) + 1
         /\ \A k \in 1..Len(items) : items'[k] = items[k]
         /\ items'[Len(items')] = last'.arg
         /\ selected' = selected /\ offset' = offset)]_vars

C11_Witness ==
  /\ last.op = "push" /\ Len(items) >= 2
  /\ items[Len(items)] = last.arg /\ items[1] # last.arg
  /\ offset > 0

\* C12: on_key with (Down, none) or (Char n, Control) does what
\* next_if_exist does, on_key with (Up, none) or (Char p, Control) does what
\* previous_if_exist does, and every other key event leaves the model
\* unchanged.
DownKeys == {[code |-> "Down", modifiers |-> "NONE"], [code |-> "n", modifiers |-> "CONTROL"]}
UpKeys == {[code |-> "Up", modifiers |-> "NONE"], [code |-> "p", modifiers |-> "CONTROL"]}

C12_KeyTable ==
  [][(last'.op = "on_key")
     => (/\ items' = items /\ focused' = focused /\ find_text' = find_text
         /\ (last'.arg \in DownKeys) => next_if_exist
         /\ (last'.arg \in UpKeys) => previous_if_exist
         /\ (last'.arg \notin DownKeys \cup UpKeys)
              => (selected' = selected /\ offset' = offset /\ ~panicked'))]_vars

C12_Witness ==
  \/ /\ last.op = "on_key" /\ last.arg \in DownKeys
     /\ Len(items) >= 2 /\ selected = Some(1)
  \/ /\ last.op = "on_key" /\ last.arg.code = "n" /\ last.arg.modifiers = "NONE"
     /\ Len(items) >= 2 /\ selected = Some(0)

\* C13: when every item is one row high at the area's width, a render from
\* offset o with clamped selection s into a viewport of H >= 1 rows stores
\* o if o <= s < o+H, s-H+1 if s >= o+H, and s if s < o. With 5 such
\* items and H = 3: offset 0, selected 4 gives offset 2, and then offset 2,
\* selected 0 gives offset 0.
uniform(its, w) == \A k \in 1..Len(its) : height(its[k], w) = 1
five_rows == <<0, 0, 0, 0, 0>>

C13_Example ==
  /\ uniform(five_rows, 1)
  /\ Window(five_rows, 0, Some(4), 1, 3).start = 2
  /\ Window(five_rows, 0, Some(4), 1, 3).end = 5
  /\ Window(five_rows, 2, Some(0), 1, 3).start = 0
  /\ ~Window(five_rows, 0, Some(4), 1, 3).panic
  /\ ~Window(five_rows, 2, Some(0), 1, 3).panic

C13_UniformScroll ==
  [][(/\ last'.op = "render" /\ ~last'.skipped
      /\ uniform(items, last'.arg.width))
     => LET H == last'.arg.height
            s == clamp_selected(selected, items)
            o == offset
        IN /\ last'.fault \notin {"index", "take"}
           /\ offset' = IF o <= s /\ s < o + H THEN o
                        ELSE IF s >= o + H THEN s - H + 1
                        ELSE s
           /\ C13_Example]_vars

C13_Witness ==
  /\ rendered /\ uniform(items, last.arg.width)
  /\ Len(items) = 3 /\ last.arg.height = 2
  /\ selected = Some(2) /\ last.from = 0 /\ offset = 1

\* C14: set_find_text(q) stores q and changes nothing else; with the
\* items, offset and selection it leaves in place, a render into any area
\* computes the same offset, the same window and the same item rectangles
\* under the new query as under the old one.
geometry(t, area) ==
  IF early_out(area, items)
  THEN [start |-> offset, end |-> offset, panic |-> FALSE, rects |-> <<>>]
  ELSE LET st == Window(items, offset, selected, area.width, area.height)
           dl == DrawLoop(items, selected, t, area, st.start, st.end, 0)
           d == dl.drawn
       IN [start |-> st.start, end |-> st.end, panic |-> dl.panic,
           rects |-> [k \in 1..Len(d) |-> <<d[k].index, d[k].y, d[k].height>>]]

C14_QueryKeepsGeometry ==
  [][(last'.op = "set_find_text")
     => (/\ find_text' = last'.arg
         /\ selected' = selected /\ offset' = offset
         /\ items' = items /\ focused' = focused
         /\ \A area \in Areas : geometry(find_text', area) = geometry(find_text, area))]_vars

C14_Witness ==
  /\ last.op = "set_find_text" /\ find_text = "a"
  /\ Len(items) >= 2 /\ offset > 0 /\ selected # None

\* C15 (as claimed): when the clamped selection is at or beyond the end of
\* the window the forward scan finds from offset, the window render ends
\* with has the selected item last (end = selected + 1, start <= selected)
\* and the real heights of the items in [start, end) sum to at most the
\* viewport height.
RECURSIVE real_height(_, _, _, _)
real_height(its, w, from, to) ==
  IF from >= to THEN 0
  ELSE height(At(its, from), w) + real_height(its, w, from + 1, to)

C15_AdvanceFits ==
  [][(/\ last'.op = "render" /\ ~last'.skipped
      /\ clamp_selected(selected, items)
           >= ForwardScan(items, last'.arg.width, last'.arg.height, offset, offset, 0).end)
     => (/\ ~panicked'
         /\ last'.end = clamp_selected(selected, items) + 1
         /\ last'.start <= clamp_selected(selected, items)
         /\ real_height(items, last'.arg.width, last'.start, last'.end)
              <= last'.arg.height)]_vars

\* C16: when the clamped selection is above the window at render time
\* (selected < state.offset), render stores the clamped selection as the
\* offset: the selection becomes the first item of the window.
C16_RetreatToSelection ==
  [][(/\ last'.op = "render" /\ ~last'.skipped
      /\ clamp_selected(selected, items) < offset)
     => (/\ last'.fault \notin {"index", "take"}
         /\ offset' = clamp_selected(selected, items)
         /\ last'.start = offset')]_vars

C16_Witness ==
  /\ rendered /\ selected # None /\ selected[1] < Len(items)
  /\ selected[1] < last.from /\ offset = selected[1]
  /\ Len(last.drawn) >= 1 /\ last.drawn[1].index = selected[1]

\* C17 (as claimed): a second render right after a render, with the same
\* items, the same area and no state change in between, leaves offset as
\* the first call stored it and draws the same window of items.
C17_RenderStable ==
  [][(/\ last.op = "render" /\ ~last.skipped
      /\ last'.op = "render" /\ last'.arg = last.arg)
     => (/\ ~panicked'
         /\ offset' = offset
         /\ last'.start = last.start /\ last'.end = last.end
         /\ last'.drawn = last.drawn)]_vars

\* C18: when the clamped selection already lies in the window the forward
\* scan finds from the current offset (offset <= selected < end, the window
\* possibly ending with one partially fitting item), render leaves offset
\* unchanged.
C18_NoJitter ==
  [][(/\ last'.op = "render" /\ ~last'.skipped
      /\ offset <= clamp_selected(selected, items)
      /\ clamp_selected(selected, items)
           < ForwardScan(items, last'.arg.width, last'.arg.height, offset, offset, 0).end)
     => (last'.fault \notin {"index", "take"} /\ offset' = offset)]_vars

C18_Witness ==
  /\ rendered /\ last.from = offset /\ offset > 0
  /\ selected = Some(last.end - 1) /\ last.end - last.start >= 2
  /\ Len(last.drawn) = last.end - last.start
  /\ last.drawn[Len(last.drawn)].height
       < height(At(items, last.end - 1), last.arg.width)

\* C19 (as claimed): every item render draws has a sub-rectangle that
\* starts at a row y with area.top <= y < area.bottom, is at least one row
\* high and ends at or above area.bottom; no display line is written at a
\* row >= area.bottom (nor, by wraparound, above the area); and the items
\* drawn are consecutive in index order from the window's start, on
\* adjacent, non-overlapping row ranges starting at area.top. Render does
\* not fail while drawing.
C19_BottomClipping ==
  (last.op = "render") =>
    LET d == last.drawn
        top == last.arg.y
    IN /\ last.fault # "u16"
       /\ \A k \in 1..Len(d) :
            /\ top <= d[k].y /\ d[k].y < bottom(last.arg)
            /\ d[k].height >= 1
            /\ d[k].y + d[k].height <= bottom(last.arg)
            /\ \A row \in d[k].rows : d[k].y <= row /\ row < bottom(last.arg)
       /\ (Len(d) >= 1) => (d[1].y = top /\ d[1].index = last.start)
       /\ \A k \in 1..(Len(d) - 1) :
            /\ d[k + 1].index = d[k].index + 1
            /\ d[k + 1].y = d[k].y + d[k].height

\* C20 (as claimed): after clear() the model (items, offset, selected,
\* focused, query) equals the model new() produces.
C20_ClearIsNew == (last.op = "clear") => (model = new)

\* C20 (amended): after clear() the items, offset and selected equal those
\* of the model new() produces, and focused and the query are the ones the
\* model had before the call.
C20_ClearKeepsFocusAndQuery ==
  [][(last'.op = "clear")
     => (/\ <<items', offset', selected'>> = <<new[1], new[2], new[3]>>
         /\ focused' = focused /\ find_text' = find_text
         /\ ~panicked')]_vars

C20_Witness ==
  /\ last.op = "clear" /\ model # new
  /\ items = new[1] /\ offset = new[2] /\ selected = new[3]

====
